---- MODULE Spec2Model ----
(***************************************************************************)
(* The donation-to-reward-token program (donation_events::record_donation) *)
(* of "smart contract/day2/advance/lib.rs", run on a ledger that executes  *)
(* one transaction at a time and commits it whole or not at all.           *)
(*                                                                         *)
(* ledger is the committed account state.  A request works on a copy of it *)
(* (tx.acc); the copy replaces ledger when the handler returns Ok(()) and  *)
(* is discarded when any `?` of the handler, or any constraint of the      *)
(* RecordDonation accounts struct, returns an error.                       *)
(***************************************************************************)
EXTENDS Integers, Sequences, FiniteSets

\* ------------------------------------------------------------------ bounds
MaxRequests == 3
InitialLamports == 10000000
\* Rent-exempt minimum the payer deposits into a created Mint account (82
\* bytes) and a created TokenAccount (165 bytes); read from the rent sysvar.
MintRent == 1461600
TokenAccountRent == 2039280
\* Largest value of the unsigned integers the token amounts are kept in.
\* It stands for 2^64 - 1, at a width TLC's integers can hold.
U64_MAX == 1073741823

\* ------------------------------------------------------- program constants
CONVERSION_RATE == 1000000
MINT_DECIMALS == 6

Donors == {"alice", "bob"}
Amounts == {0, 500000, 1999999, 2000000, 3000000, 12000000}

\* Values of the COption<Pubkey> / Pubkey fields the program reads.
NoKey == "none"
MintAuthority == "mint_authority"
RewardMint == "spacex_token_mint"

\* exists: the account is allocated and owned by the token program;
\* initialized: the token program's is_initialized flag of the mint;
\* authority, freeze_authority: the mint's two optional authorities.
NoMint == [exists |-> FALSE, initialized |-> FALSE, decimals |-> 0,
           authority |-> NoKey, freeze_authority |-> NoKey,
           supply |-> 0]
NoTokenAccount == [exists |-> FALSE, owner |-> NoKey, mint |-> NoKey, amount |-> 0]

VARIABLES ledger, tx, pc, clock, log, committed, mintCreations

vars == <<ledger, tx, pc, clock, log, committed, mintCreations>>

\* ------------------------------------------------------------ pure helpers

\* is_mint_initialized: the mint's authority field is populated.
is_mint_initialized(acc) == acc.mint.authority # NoKey

\* has_token_account: the balance account's owner is the donor.
has_token_account(acc, d) == acc.ata[d].owner = d

\* Mutant: the reward rounds up instead of down.
spacex_tokens_to_mint_ceil(amount) ==
    (amount + CONVERSION_RATE - 1) \div CONVERSION_RATE

\* spacex_tokens_to_mint = amount / 1_000_000 (u64 floor division).
spacex_tokens_to_mint(amount) == amount \div CONVERSION_RATE

\* Result of one step: the accounts after it and the events it performed.
Ok(acc, ev) == [ok |-> TRUE, err |-> "none", acc |-> acc, ev |-> ev]
Err(kind, acc) == [ok |-> FALSE, err |-> kind, acc |-> acc, ev |-> <<>>]

\* Number of occurrences of event e in trace t.
Count(t, e) == Cardinality({i \in 1..Len(t) : t[i] = e})

\* Mutant: account creation charges the payer nothing.
PayNoRent(acc, payer, rent) == acc

\* system_program create_account paid by `payer`: rent leaves the payer.
PayRent(acc, payer, rent) ==
    [acc EXCEPT !.lamports[payer] = @ - rent]

\* ------------------------------------------------- account constraints

\* Mutant: an existing mint is initialised again, its supply back at zero.
InitMintResets(acc, d) ==
    IF ~acc.mint.exists /\ acc.lamports[d] < MintRent
    THEN Err("InsufficientFundsForRent", acc)
    ELSE Ok([(IF acc.mint.exists THEN acc ELSE PayRent(acc, d, MintRent)) EXCEPT
               !.mint = [exists |-> TRUE, initialized |-> TRUE,
                         decimals |-> MINT_DECIMALS,
                         authority |-> MintAuthority, freeze_authority |-> NoKey,
                         supply |-> 0]],
            <<"create_mint">>)

\* Mutant: the constraint only allocates the mint account and leaves its
\* initialisation to the handler body.
InitMintAllocateOnly(acc, d) ==
    IF ~acc.mint.exists
    THEN IF acc.lamports[d] < MintRent
         THEN Err("InsufficientFundsForRent", acc)
         ELSE Ok([PayRent(acc, d, MintRent) EXCEPT
                    !.mint = [exists |-> TRUE, initialized |-> FALSE,
                              decimals |-> 0,
                              authority |-> NoKey, freeze_authority |-> NoKey,
                              supply |-> 0]],
                 <<"create_mint">>)
    ELSE Ok(acc, <<>>)

\* Mutant: plain `init` in place of `init_if_needed`: an existing mint is an
\* error.
InitMintStrict(acc, d) ==
    IF acc.mint.exists
    THEN Err("AlreadyInUse", acc)
    ELSE IF acc.lamports[d] < MintRent
         THEN Err("InsufficientFundsForRent", acc)
         ELSE Ok([PayRent(acc, d, MintRent) EXCEPT
                    !.mint = [exists |-> TRUE, initialized |-> TRUE,
                              decimals |-> MINT_DECIMALS,
                              authority |-> MintAuthority, freeze_authority |-> NoKey,
                              supply |-> 0]],
                 <<"create_mint">>)

\* Mutant: the mint is created and initialised on every request, whether or
\* not it already exists.
InitMintAlways(acc, d) ==
    IF acc.lamports[d] < MintRent
    THEN Err("InsufficientFundsForRent", acc)
    ELSE Ok([PayRent(acc, d, MintRent) EXCEPT
               !.mint = [exists |-> TRUE, initialized |-> TRUE,
                         decimals |-> MINT_DECIMALS,
                         authority |-> MintAuthority, freeze_authority |-> NoKey,
                         supply |-> acc.mint.supply]],
            <<"create_mint">>)

\* #[account(init_if_needed, payer = donor, seeds = [b"spacex_token_mint"],
\*           mint::decimals = 6, mint::authority = mint_authority)]
\* An absent account is created and initialised, the donor paying its rent;
\* an existing one must deserialise as an initialised Mint and carry the
\* expected authority, no freeze authority (the attribute names none) and
\* the expected decimals.
InitMintIfNeeded(acc, d) ==
    IF ~acc.mint.exists
    THEN IF acc.lamports[d] < MintRent
         THEN Err("InsufficientFundsForRent", acc)
         ELSE Ok([PayRent(acc, d, MintRent) EXCEPT
                    !.mint = [exists |-> TRUE, initialized |-> TRUE,
                              decimals |-> MINT_DECIMALS,
                              authority |-> MintAuthority, freeze_authority |-> NoKey,
                              supply |-> 0]],
                 <<"create_mint">>)
    ELSE IF ~acc.mint.initialized
         THEN Err("UninitializedAccount", acc)
         ELSE IF acc.mint.authority # MintAuthority
              THEN Err("ConstraintMintMintAuthority", acc)
              ELSE IF acc.mint.freeze_authority # NoKey
                   THEN Err("ConstraintMintFreezeAuthority", acc)
                   ELSE IF acc.mint.decimals # MINT_DECIMALS
                        THEN Err("ConstraintMintDecimals", acc)
                        ELSE Ok(acc, <<>>)

\* Mutant: an existing balance account is accepted without comparing its
\* mint and owner.
InitTokenAccountUnchecked(acc, d) ==
    IF ~acc.ata[d].exists
    THEN IF acc.lamports[d] < TokenAccountRent
         THEN Err("InsufficientFundsForRent", acc)
         ELSE Ok([PayRent(acc, d, TokenAccountRent) EXCEPT
                    !.ata[d] = [exists |-> TRUE, owner |-> d,
                                mint |-> RewardMint, amount |-> 0]],
                 <<"create_balance">>)
    ELSE Ok(acc, <<>>)

\* Mutant: the balance account is created anew on every request, its amount
\* reset to zero.
InitTokenAccountAlways(acc, d) ==
    IF acc.lamports[d] < TokenAccountRent
    THEN Err("InsufficientFundsForRent", acc)
    ELSE Ok([PayRent(acc, d, TokenAccountRent) EXCEPT
               !.ata[d] = [exists |-> TRUE, owner |-> d,
                           mint |-> RewardMint, amount |-> 0]],
            <<"create_balance">>)

\* #[account(init_if_needed, payer = donor, associated_token::mint =
\*           spacex_mint, associated_token::authority = donor)]
InitTokenAccountIfNeeded(acc, d) ==
    IF ~acc.ata[d].exists
    THEN IF acc.lamports[d] < TokenAccountRent
         THEN Err("InsufficientFundsForRent", acc)
         ELSE Ok([PayRent(acc, d, TokenAccountRent) EXCEPT
                    !.ata[d] = [exists |-> TRUE, owner |-> d,
                                mint |-> RewardMint, amount |-> 0]],
                 <<"create_balance">>)
    ELSE IF acc.ata[d].mint # RewardMint
         THEN Err("ConstraintTokenMint", acc)
         ELSE IF acc.ata[d].owner # d
              THEN Err("ConstraintTokenOwner", acc)
              ELSE Ok(acc, <<>>)

\* ------------------------------------------------------- handler steps

\* Mutant: the transfer debits the donor and credits nobody.
SystemTransferNoCredit(acc, d, amount) ==
    IF acc.lamports[d] < amount
    THEN Err("InsufficientFunds", acc)
    ELSE Ok([acc EXCEPT !.lamports[d] = @ - amount], <<"transfer">>)

\* Mutant: the transfer does not check the donor's balance.
SystemTransferUnchecked(acc, d, amount) ==
    Ok([acc EXCEPT !.lamports[d] = @ - amount, !.vault = @ + amount],
       <<"transfer">>)

\* invoke(system_instruction::transfer(donor, vault, amount))
SystemTransfer(acc, d, amount) ==
    IF acc.lamports[d] < amount
    THEN Err("InsufficientFunds", acc)
    ELSE Ok([acc EXCEPT !.lamports[d] = @ - amount, !.vault = @ + amount],
            <<"transfer">>)

\* token::initialize_mint(cpi, 6, mint_authority, Some(mint_authority)):
\* the token program rejects an account that holds no mint data and one
\* whose is_initialized flag is set, whatever its authority; the last
\* argument becomes the mint's freeze authority.
InitializeMint(acc) ==
    IF ~acc.mint.exists
    THEN Err("InvalidAccountData", acc)
    ELSE IF acc.mint.initialized
         THEN Err("AlreadyInUse", acc)
         ELSE Ok([acc EXCEPT !.mint.initialized = TRUE,
                             !.mint.decimals = MINT_DECIMALS,
                             !.mint.authority = MintAuthority,
                             !.mint.freeze_authority = MintAuthority],
                 <<"initialize_mint">>)

\* associated_token::create(payer = donor, authority = donor, mint):
\* the non-idempotent create fails when the account already exists.
AssociatedTokenCreate(acc, d) ==
    IF acc.ata[d].exists
    THEN Err("IllegalOwner", acc)
    ELSE IF acc.lamports[d] < TokenAccountRent
         THEN Err("InsufficientFundsForRent", acc)
         ELSE Ok([PayRent(acc, d, TokenAccountRent) EXCEPT
                    !.ata[d] = [exists |-> TRUE, owner |-> d,
                                mint |-> RewardMint, amount |-> 0]],
                 <<"create_balance">>)

\* if !is_mint_initialized { initialize_mint(..)?;
\*                            if !has_token_account { create(..)?; } }
\* faultInit and faultCreate are errors of the two invoked programs that the
\* accounts do not explain; each returns through its `?` (lines 51, 68).
ProvisionInBody(acc, d, faultInit, faultCreate) ==
    IF ~is_mint_initialized(acc)
    THEN LET r == InitializeMint(acc)
         IN  IF ~r.ok THEN r
             ELSE IF faultInit THEN Err("ExternalLedgerFailure", acc)
             ELSE IF ~has_token_account(r.acc, d)
                  THEN LET c == AssociatedTokenCreate(r.acc, d)
                       IN  IF ~c.ok THEN c
                           ELSE IF faultCreate
                                THEN Err("ExternalLedgerFailure", acc)
                                ELSE [c EXCEPT !.ev = r.ev \o @]
                  ELSE r
    ELSE Ok(acc, <<>>)

\* Mutant: the sums wrap around at the integer width.
MintToWrapping(acc, d, signer, tokens) ==
    IF ~acc.mint.exists \/ ~acc.ata[d].exists
    THEN Err("InvalidAccountData", acc)
    ELSE IF acc.mint.authority # signer
         THEN Err("OwnerMismatch", acc)
         ELSE Ok([acc EXCEPT
                    !.ata[d].amount = (@ + tokens) % (U64_MAX + 1),
                    !.mint.supply = (@ + tokens) % (U64_MAX + 1)],
                 <<"mint_to">>)

\* Mutant: the mint's supply is not raised by the minted amount.
MintToNoSupply(acc, d, signer, tokens) ==
    IF ~acc.mint.exists \/ ~acc.ata[d].exists
    THEN Err("InvalidAccountData", acc)
    ELSE IF acc.mint.authority # signer
         THEN Err("OwnerMismatch", acc)
         ELSE Ok([acc EXCEPT !.ata[d].amount = @ + tokens], <<"mint_to">>)

\* Mutant: the minted amount is credited to every existing balance account.
MintToEveryone(acc, d, signer, tokens) ==
    IF ~acc.mint.exists \/ ~acc.ata[d].exists
    THEN Err("InvalidAccountData", acc)
    ELSE IF acc.mint.authority # signer
         THEN Err("OwnerMismatch", acc)
         ELSE Ok([acc EXCEPT
                    !.ata = [e \in DOMAIN acc.ata |->
                               IF acc.ata[e].exists
                               THEN [acc.ata[e] EXCEPT !.amount = @ + tokens]
                               ELSE acc.ata[e]],
                    !.mint.supply = @ + tokens],
                 <<"mint_to">>)

\* Mutant: a mint of zero tokens is rejected.
MintToRejectsZero(acc, d, signer, tokens) ==
    IF tokens = 0
    THEN Err("InvalidAmount", acc)
    ELSE IF ~acc.mint.exists \/ ~acc.ata[d].exists
         THEN Err("InvalidAccountData", acc)
         ELSE IF acc.mint.authority # signer
              THEN Err("OwnerMismatch", acc)
              ELSE Ok([acc EXCEPT !.ata[d].amount = @ + tokens,
                                  !.mint.supply = @ + tokens],
                      <<"mint_to">>)

\* Mutant: the minted amount overwrites the balance instead of adding to it.
MintToOverwrite(acc, d, signer, tokens) ==
    IF ~acc.mint.exists \/ ~acc.ata[d].exists
    THEN Err("InvalidAccountData", acc)
    ELSE IF acc.mint.authority # signer
         THEN Err("OwnerMismatch", acc)
         ELSE Ok([acc EXCEPT !.ata[d].amount = tokens,
                             !.mint.supply = @ + tokens],
                 <<"mint_to">>)

\* token::mint_to(mint, to = user_token_account, authority, tokens), signed
\* with the seeds of `signer`.  The token program reads the destination and
\* compares its mint before it reads the mint; it adds with checked_add and
\* returns an error when the balance or the supply would pass the maximum.
MintTo(acc, d, signer, tokens) ==
    IF ~acc.ata[d].exists
    THEN Err("InvalidAccountData", acc)
    ELSE IF acc.ata[d].mint # RewardMint
         THEN Err("MintMismatch", acc)
         ELSE IF ~acc.mint.exists
         THEN Err("InvalidAccountData", acc)
         ELSE IF ~acc.mint.initialized
         THEN Err("UninitializedAccount", acc)
         ELSE IF acc.mint.authority = NoKey
              THEN Err("FixedSupply", acc)
              ELSE IF acc.mint.authority # signer
                   THEN Err("OwnerMismatch", acc)
                   ELSE IF \/ tokens > U64_MAX - acc.ata[d].amount
                           \/ tokens > U64_MAX - acc.mint.supply
                        THEN Err("Overflow", acc)
                        ELSE Ok([acc EXCEPT !.ata[d].amount = @ + tokens,
                                            !.mint.supply = @ + tokens],
                                <<"mint_to">>)

\* Mutant: the signer seeds are those of another derived address.
SignerOfVaultSeeds == "donation_vault"

\* seeds = [b"mint_authority", bump]: the address the signer seeds derive.
SignerOfSeeds == MintAuthority

\* Mutant: the record reports the transferred amount as the minted tokens.
DonationRecordAmountAsTokens(d, amount, ts, tokens) ==
    [donor |-> d, amount |-> amount, timestamp |-> ts, tokens |-> amount]

\* msg!("DONATION_EVENT: donor={}, amount={}, timestamp={}, tokens={}")
DonationRecord(d, amount, ts, tokens) ==
    [donor |-> d, amount |-> amount, timestamp |-> ts, tokens |-> tokens]

\* Mutant: a failed request leaves the effects of its completed steps behind.
AbortKeepsEffects(l, t) == t.acc

\* The ledger after a request that returned an error / returned Ok(()).
Abort(l, t) == l
Commit(l, t) == t.acc

\* Mutant: the balance account is provisioned after the transfer.
StepAfterTransferFirst(s) ==
    CASE s = "init_mint" -> "transfer"
      [] s = "transfer" -> "init_ata"
      [] s = "init_ata" -> "provision"
      [] s = "provision" -> "mint_to"
      [] s = "mint_to" -> "log"
      [] OTHER -> "idle"

\* A whole request none of whose invoked programs fails on its own: the
\* constraints and the body applied in order, stopping at the first error.
RunRequest(acc, d, amount) ==
    LET r1 == InitMintIfNeeded(acc, d) IN
    IF ~r1.ok THEN r1 ELSE
    LET r2 == InitTokenAccountIfNeeded(r1.acc, d) IN
    IF ~r2.ok THEN r2 ELSE
    LET r3 == SystemTransfer(r2.acc, d, amount) IN
    IF ~r3.ok THEN r3 ELSE
    LET r4 == ProvisionInBody(r3.acc, d, FALSE, FALSE) IN
    IF ~r4.ok THEN r4 ELSE
    LET r5 == MintTo(r4.acc, d, SignerOfSeeds, spacex_tokens_to_mint(amount)) IN
    IF ~r5.ok THEN r5 ELSE
    Ok(r5.acc, r1.ev \o r2.ev \o r3.ev \o r4.ev \o r5.ev \o <<"log">>)

\* The order of the request's steps: account constraints of RecordDonation
\* (mint, then balance account), then the handler body top to bottom.
StepAfter(s) ==
    CASE s = "init_mint" -> "init_ata"
      [] s = "init_ata" -> "transfer"
      [] s = "transfer" -> "provision"
      [] s = "provision" -> "mint_to"
      [] s = "mint_to" -> "log"
      [] OTHER -> "idle"

\* ------------------------------------------------------------- the machine

NoTx == [status |-> "none", donor |-> NoKey, amount |-> 0, step |-> "none",
         err |-> "none", trace |-> <<>>, nlog |-> 0,
         pre |-> [vault |-> 0, lamports |-> [d \in Donors |-> 0],
                  mint |-> NoMint, ata |-> [d \in Donors |-> NoTokenAccount]],
         acc |-> [vault |-> 0, lamports |-> [d \in Donors |-> 0],
                  mint |-> NoMint, ata |-> [d \in Donors |-> NoTokenAccount]]]

Init ==
    /\ ledger = [vault |-> 0,
                 lamports |-> [d \in Donors |-> InitialLamports],
                 mint |-> NoMint,
                 ata |-> [d \in Donors |-> NoTokenAccount]]
    /\ tx = NoTx
    /\ pc = "idle"
    /\ clock = 0
    /\ log = <<>>
    /\ committed = <<>>
    /\ mintCreations = 0

\* A donor signs and submits record_donation(amount); the ledger loads the
\* accounts the request names.
Submit(d, amount) ==
    /\ pc = "idle"
    /\ clock < MaxRequests
    /\ tx' = [status |-> "running", donor |-> d, amount |-> amount,
              step |-> "none", err |-> "none", trace |-> <<>>,
              nlog |-> Len(log), pre |-> ledger, acc |-> ledger]
    /\ pc' = "init_mint"
    /\ clock' = clock + 1
    /\ UNCHANGED <<ledger, log, committed, mintCreations>>

\* One step of the running request: r is the step's result; fault is an
\* error of the invoked program that the accounts do not explain.  Either
\* error ends the request and leaves the ledger as Abort says.
Advance(s, r, fault) ==
    IF r.ok /\ ~fault
    THEN /\ tx' = [tx EXCEPT !.acc = r.acc,
                             !.trace = @ \o r.ev]
         /\ pc' = StepAfter(s)
         /\ UNCHANGED <<ledger, clock, log, committed, mintCreations>>
    ELSE /\ tx' = [tx EXCEPT !.status = "err", !.step = s,
                             !.err = IF r.ok THEN "ExternalLedgerFailure" ELSE r.err]
         /\ pc' = "idle"
         /\ ledger' = Abort(ledger, tx)
         /\ UNCHANGED <<clock, log, committed, mintCreations>>

ConstrainMint ==
    /\ pc = "init_mint"
    /\ \E fault \in BOOLEAN :
         Advance("init_mint", InitMintIfNeeded(tx.acc, tx.donor), fault)

ConstrainTokenAccount ==
    /\ pc = "init_ata"
    /\ \E fault \in BOOLEAN :
         Advance("init_ata", InitTokenAccountIfNeeded(tx.acc, tx.donor), fault)

Transfer ==
    /\ pc = "transfer"
    /\ \E fault \in BOOLEAN :
         Advance("transfer", SystemTransfer(tx.acc, tx.donor, tx.amount), fault)

Provision ==
    /\ pc = "provision"
    /\ \E faultInit, faultCreate \in BOOLEAN :
         Advance("provision",
                 ProvisionInBody(tx.acc, tx.donor, faultInit, faultCreate),
                 FALSE)

Mint ==
    /\ pc = "mint_to"
    /\ \E fault \in BOOLEAN :
         Advance("mint_to",
                 MintTo(tx.acc, tx.donor, SignerOfSeeds,
                        spacex_tokens_to_mint(tx.amount)),
                 fault)

\* Clock::get()?, the DONATION_EVENT line, Ok(()): the request commits.
LogAndReturn ==
    /\ pc = "log"
    /\ \E fault \in BOOLEAN :
         IF fault
         THEN Advance("log", Ok(tx.acc, <<>>), TRUE)
         ELSE /\ log' = Append(log, DonationRecord(tx.donor, tx.amount, clock,
                                       spacex_tokens_to_mint(tx.amount)))
              /\ ledger' = Commit(ledger, tx)
              /\ tx' = [tx EXCEPT !.status = "ok", !.trace = @ \o <<"log">>]
              /\ pc' = "idle"
              /\ committed' = Append(committed,
                                      [donor |-> tx.donor, amount |-> tx.amount])
              /\ mintCreations' = mintCreations + Count(tx.trace, "create_mint")
                                                + Count(tx.trace, "initialize_mint")
              /\ UNCHANGED clock

\* Accounts a request may find at the addresses it names when they were
\* written before the first request: a mint with other metadata or a supply
\* near the maximum, and for one donor a balance account with another owner
\* or mint, or an amount near the maximum.
FoundMints ==
    {NoMint}
    \cup {[exists |-> TRUE, initialized |-> TRUE,
           decimals |-> MINT_DECIMALS,
           authority |-> MintAuthority, freeze_authority |-> NoKey,
           supply |-> s] :
              s \in {0, U64_MAX - 2, U64_MAX}}
    \cup {[exists |-> TRUE, initialized |-> TRUE,
           decimals |-> 9, authority |-> MintAuthority,
           freeze_authority |-> NoKey,
           supply |-> 0],
          [exists |-> TRUE, initialized |-> TRUE,
           decimals |-> MINT_DECIMALS,
           authority |-> "other_authority", freeze_authority |-> NoKey,
           supply |-> 0],
          [exists |-> TRUE, initialized |-> TRUE,
           decimals |-> MINT_DECIMALS, authority |-> NoKey,
           freeze_authority |-> NoKey,
           supply |-> 0],
          [exists |-> TRUE, initialized |-> TRUE,
           decimals |-> MINT_DECIMALS, authority |-> MintAuthority,
           freeze_authority |-> MintAuthority,
           supply |-> 0]}

FoundTokenAccounts(d) ==
    {NoTokenAccount}
    \cup {[exists |-> TRUE, owner |-> d, mint |-> RewardMint, amount |-> a] :
              a \in {0, U64_MAX - 2}}
    \cup {[exists |-> TRUE, owner |-> "mallory", mint |-> RewardMint,
           amount |-> 0],
          [exists |-> TRUE, owner |-> d, mint |-> "other_mint", amount |-> 0]}

InitFound ==
    /\ \E m \in FoundMints, t \in FoundTokenAccounts("alice") :
          /\ t.amount <= m.supply
          /\ (t.exists /\ t.mint = RewardMint) => m.exists
          /\ ledger = [vault |-> 0,
                       lamports |-> [d \in Donors |-> InitialLamports],
                       mint |-> m,
                       ata |-> [d \in Donors |->
                                  IF d = "alice" THEN t ELSE NoTokenAccount]]
    /\ tx = NoTx
    /\ pc = "idle"
    /\ clock = 0
    /\ log = <<>>
    /\ committed = <<>>
    /\ mintCreations = 0

Next ==
    \/ \E d \in Donors, a \in Amounts : Submit(d, a)
    \/ ConstrainMint
    \/ ConstrainTokenAccount
    \/ Transfer
    \/ Provision
    \/ Mint
    \/ LogAndReturn

Spec == Init /\ [][Next]_vars

\* ------------------------------------------- spl_token_demo::mint_tokens
\* The second program keeps a mint and balance accounts of its own at the
\* addresses its program id derives; in SpecSpl the ledger holds those.

SplAmounts == {0, 1, 5, 1000000}

\* MintTokens.token_mint: #[account(init_if_needed, payer = user,
\*   seeds = [b"spacex_token_mint"], mint::decimals = 6,
\*   mint::authority = mint_authority)]
SplInitMintIfNeeded(acc, u) == InitMintIfNeeded(acc, u)

\* MintTokens.user_token_account: #[account(init_if_needed, payer = user,
\*   associated_token::mint = token_mint, associated_token::authority = user)]
SplInitTokenAccountIfNeeded(acc, u) == InitTokenAccountIfNeeded(acc, u)

\* Mutant: the amount is converted at the donation program's rate.
mint_tokens_converted(acc, u, amount) ==
    MintTo(acc, u, SignerOfSeeds, amount \div CONVERSION_RATE)

\* The body of mint_tokens up to its `?`: token::mint_to(cpi_ctx, amount)
\* signed with seeds [b"mint_authority", bump].
mint_tokens(acc, u, amount) == MintTo(acc, u, SignerOfSeeds, amount)

\* msg!("TOKEN_MINT_EVENT: recipient={}, amount={}")
TokenMintRecord(u, amount) == [recipient |-> u, amount |-> amount]

SplSubmit(u, amount) ==
    /\ pc = "idle"
    /\ clock < MaxRequests
    /\ tx' = [status |-> "running", donor |-> u, amount |-> amount,
              step |-> "none", err |-> "none", trace |-> <<>>,
              nlog |-> Len(log), pre |-> ledger, acc |-> ledger]
    /\ pc' = "spl_init_mint"
    /\ clock' = clock + 1
    /\ UNCHANGED <<ledger, log, committed, mintCreations>>

\* One constraint of MintTokens succeeding (the request moves on to `next`)
\* or failing (the request is discarded).
SplAdvance(s, r, fault, next) ==
    IF r.ok /\ ~fault
    THEN /\ tx' = [tx EXCEPT !.acc = r.acc, !.trace = @ \o r.ev]
         /\ pc' = next
         /\ UNCHANGED <<ledger, clock, log, committed, mintCreations>>
    ELSE /\ tx' = [tx EXCEPT !.status = "err", !.step = s,
                             !.err = IF r.ok THEN "ExternalLedgerFailure" ELSE r.err]
         /\ pc' = "idle"
         /\ ledger' = Abort(ledger, tx)
         /\ UNCHANGED <<clock, log, committed, mintCreations>>

SplConstrainMint ==
    /\ pc = "spl_init_mint"
    /\ \E fault \in BOOLEAN :
         SplAdvance("spl_init_mint", SplInitMintIfNeeded(tx.acc, tx.donor),
                    fault, "spl_init_ata")

SplConstrainTokenAccount ==
    /\ pc = "spl_init_ata"
    /\ \E fault \in BOOLEAN :
         SplAdvance("spl_init_ata",
                    SplInitTokenAccountIfNeeded(tx.acc, tx.donor),
                    fault, "spl_mint_to")

\* The handler body: mint_to, the TOKEN_MINT_EVENT line, Ok(()).
SplMintTokens ==
    /\ pc = "spl_mint_to"
    /\ \E fault \in BOOLEAN :
         LET r == mint_tokens(tx.acc, tx.donor, tx.amount)
         IN  IF ~r.ok \/ fault
             THEN SplAdvance("spl_mint_to", r, fault, "idle")
             ELSE /\ tx' = [tx EXCEPT !.status = "ok", !.acc = r.acc,
                                      !.trace = @ \o r.ev \o <<"log">>]
                  /\ ledger' = Commit(ledger, [tx EXCEPT !.acc = r.acc])
                  /\ log' = Append(log, TokenMintRecord(tx.donor, tx.amount))
                  /\ committed' = Append(committed,
                                     [donor |-> tx.donor, amount |-> tx.amount])
                  /\ mintCreations' = mintCreations
                                         + Count(tx.trace, "create_mint")
                  /\ pc' = "idle"
                  /\ UNCHANGED clock

SplNext ==
    \/ \E u \in Donors, a \in SplAmounts : SplSubmit(u, a)
    \/ SplConstrainMint
    \/ SplConstrainTokenAccount
    \/ SplMintTokens

SpecSpl == Init /\ [][SplNext]_vars

SpecFound == InitFound /\ [][Next]_vars

TypeOK ==
    /\ pc \in {"idle", "init_mint", "init_ata", "transfer", "provision", "mint_to", "log"}
    /\ tx.status \in {"none", "running", "ok", "err"}
    /\ clock \in 0..MaxRequests
    /\ ledger.vault \in Nat
    /\ \A d \in Donors : ledger.lamports[d] \in Nat

\* ------------------------------------------------------------- properties

Range(t) == {t[i] : i \in 1..Len(t)}

\* The request that last finished (committed or failed) and has not been
\* followed by another submission.
Finished == tx.status \in {"ok", "err"}
Committed == tx.status = "ok"
Failed == tx.status = "err"

\* The donor of the finished request had no balance account before it.
FreshDonor == ~tx.pre.ata[tx.donor].exists

\* Errors whose cause is the donor's funds or a failure of an invoked program.
FundsOrExternal ==
    {"InsufficientFunds", "InsufficientFundsForRent", "ExternalLedgerFailure"}

\* C1: a committed record_donation(amount), amount > 0, of a donor without a
\* balance account leaves the vault exactly amount higher, the donor's
\* balance account at floor(amount / 1_000_000), and a mint with 6 decimals.
C1_FreshDonation ==
    (Committed /\ tx.amount > 0 /\ FreshDonor) =>
        /\ ledger.vault = tx.pre.vault + tx.amount
        /\ ledger.ata[tx.donor].exists
        /\ ledger.ata[tx.donor].amount * 1000000 <= tx.amount
        /\ tx.amount < (ledger.ata[tx.donor].amount + 1) * 1000000
        /\ ledger.mint.exists
        /\ ledger.mint.decimals = 6

C1_Witness ==
    /\ Committed /\ FreshDonor
    /\ tx.amount = 1999999
    /\ ledger.ata[tx.donor].amount = 1
    /\ ledger.vault = tx.pre.vault + 1999999

\* C2: a request that fails at any step leaves the whole ledger as it was
\* before the request, and emits nothing.
C2_AllOrNothing ==
    Failed => /\ ledger = tx.pre
              /\ Len(log) = tx.nlog

\* The mint step failed after the working copy had the transfer applied and
\* both accounts created; none of it is in the ledger.
C2_Witness ==
    /\ Failed /\ tx.step = "mint_to"
    /\ tx.amount > 0
    /\ tx.acc.vault = tx.pre.vault + tx.amount
    /\ tx.acc.mint.exists /\ tx.acc.ata[tx.donor].exists
    /\ ~ledger.mint.exists /\ ~ledger.ata[tx.donor].exists
    /\ ledger.vault = tx.pre.vault
    /\ ledger.lamports[tx.donor] = tx.pre.lamports[tx.donor]

\* C3: over any sequence of requests the mint is created at most once, by
\* the first committed donation; a request that finds the mint creates and
\* initialises no mint and does not fail because of it; every donor with a
\* committed donation has a balance account of their own.
C3_MintCreatedOnce ==
    /\ mintCreations <= 1
    /\ (mintCreations = 1) <=> (Len(committed) >= 1)
    /\ ledger.mint.exists <=> (Len(committed) >= 1)
    /\ (tx.status # "none" /\ tx.pre.mint.exists) =>
          /\ "create_mint" \notin Range(tx.trace)
          /\ "initialize_mint" \notin Range(tx.trace)
          /\ Failed => tx.err \in FundsOrExternal
    /\ \A i \in 1..Len(committed) :
          /\ ledger.ata[committed[i].donor].exists
          /\ ledger.ata[committed[i].donor].owner = committed[i].donor
          /\ ledger.ata[committed[i].donor].mint = RewardMint

C3_Witness ==
    /\ Len(committed) = 3
    /\ committed[1].donor # committed[2].donor
    /\ mintCreations = 1
    /\ \A d \in Donors : ledger.ata[d].exists /\ ledger.ata[d].owner = d

RECURSIVE RewardSum(_, _)
\* Sum of floor(amount / 1_000_000) over the committed donations of donor d.
RewardSum(seq, d) ==
    IF seq = <<>> THEN 0
    ELSE RewardSum(Tail(seq), d)
         + (IF Head(seq).donor = d THEN Head(seq).amount \div 1000000 ELSE 0)

\* C4: a donor's balance account holds the sum of floor(ai / 1_000_000) over
\* their committed donations, and no finished request lowers it.
C4_Additive ==
    \A d \in Donors :
        /\ ledger.ata[d].amount = RewardSum(committed, d)
        /\ Finished => ledger.ata[d].amount >= tx.pre.ata[d].amount

C4_Witness ==
    \E d \in Donors :
        /\ Len(committed) = 2
        /\ committed[1] = [donor |-> d, amount |-> 2000000]
        /\ committed[2] = [donor |-> d, amount |-> 3000000]
        /\ ledger.ata[d].amount = 5

\* Rent the finished request had to pay for the accounts it found absent.
RentDue ==
    (IF tx.pre.mint.exists THEN 0 ELSE MintRent)
    + (IF tx.pre.ata[tx.donor].exists THEN 0 ELSE TokenAccountRent)

\* The donor could pay the amount and the rent of the accounts to create.
SufficientFunds == tx.pre.lamports[tx.donor] >= tx.amount + RentDue

\* C5: record_donation(amount) with 0 <= amount < 1_000_000 from a donor
\* with sufficient funds fails for no reason of its own; when it commits,
\* the vault is credited exactly amount, the mint step has run, and the
\* donor's token amount and the supply are unchanged.
C5_BelowThreshold ==
    (Finished /\ tx.amount < 1000000) =>
        /\ Committed =>
              /\ ledger.vault = tx.pre.vault + tx.amount
              /\ "mint_to" \in Range(tx.trace)
              /\ ledger.ata[tx.donor].amount = tx.pre.ata[tx.donor].amount
              /\ ledger.mint.supply = tx.pre.mint.supply
        /\ (Failed /\ SufficientFunds) => tx.err = "ExternalLedgerFailure"

C5_Witness ==
    /\ Committed /\ tx.amount = 500000
    /\ tx.pre.ata[tx.donor].exists /\ tx.pre.ata[tx.donor].amount = 2
    /\ ledger.ata[tx.donor].amount = 2
    /\ ledger.vault = tx.pre.vault + 500000
    /\ "mint_to" \in Range(tx.trace)

RECURSIVE SumAmounts(_)
SumAmounts(seq) ==
    IF seq = <<>> THEN 0 ELSE Head(seq).amount + SumAmounts(Tail(seq))

\* C6: the vault holds its initial balance (0) plus the amounts of all
\* committed requests; no finished request lowers it and a failed one
\* leaves it alone.
C6_VaultIsSumOfDonations ==
    /\ ledger.vault = SumAmounts(committed)
    /\ Finished => ledger.vault >= tx.pre.vault
    /\ Failed => ledger.vault = tx.pre.vault

C6_Witness ==
    /\ Len(committed) = 2
    /\ committed[1].amount = 2000000 /\ committed[2].amount = 500000
    /\ ledger.vault = 2500000
    /\ Failed /\ tx.step = "mint_to" /\ tx.amount = 3000000
    /\ tx.acc.vault = 5500000

\* C7 as stated: a committed request lowers the donor's native balance by
\* exactly amount and raises the vault by exactly amount.
C7_DonorPaysExactlyAmount ==
    Committed =>
        /\ ledger.lamports[tx.donor] = tx.pre.lamports[tx.donor] - tx.amount
        /\ ledger.vault = tx.pre.vault + tx.amount

\* C7 amended: the vault rises by exactly amount; the donor's native balance
\* falls by amount plus the rent of the accounts the request created (the
\* mint, the donor's balance account), so by exactly amount only when both
\* existed before.
C7_DonorPaysAmountPlusRent ==
    Committed =>
        /\ ledger.vault = tx.pre.vault + tx.amount
        /\ ledger.lamports[tx.donor]
              = tx.pre.lamports[tx.donor] - tx.amount - RentDue

C7_Witness ==
    /\ Committed /\ tx.amount = 2000000
    /\ ~tx.pre.mint.exists /\ ~tx.pre.ata[tx.donor].exists
    /\ ledger.lamports[tx.donor]
          = tx.pre.lamports[tx.donor] - 2000000 - MintRent - TokenAccountRent
    /\ ledger.vault = tx.pre.vault + 2000000

\* C8: a request whose donor holds less than amount fails, changes nothing
\* in the ledger and emits no record.
C8_InsufficientFunds ==
    (Finished /\ tx.pre.lamports[tx.donor] < tx.amount) =>
        /\ Failed
        /\ ledger = tx.pre
        /\ Len(log) = tx.nlog

C8_Witness ==
    /\ Failed /\ tx.err = "InsufficientFunds" /\ tx.step = "transfer"
    /\ tx.pre.lamports[tx.donor] < tx.amount
    /\ tx.pre.vault > 0
    /\ ledger = tx.pre

\* Every a in trace t comes before every b.
Before(t, a, b) ==
    \A i, j \in 1..Len(t) : (t[i] = a /\ t[j] = b) => i < j

Creations == {"create_mint", "initialize_mint", "create_balance"}

\* C9 as stated: within a request no mint or balance account is created
\* before the value transfer, and the mint step follows the creations.
C9_TransferBeforeProvisioning ==
    /\ \A c \in Creations : Before(tx.trace, "transfer", c)
    /\ \A c \in Creations : Before(tx.trace, c, "mint_to")

\* C9 amended: the accounts are provisioned first, then the value is
\* transferred, then the reward is minted, then the record is logged; the
\* mint step starts only with both accounts in place.
C9_ProvisionTransferMintLog ==
    /\ \A c \in Creations : Before(tx.trace, c, "transfer")
    /\ Before(tx.trace, "transfer", "mint_to")
    /\ Before(tx.trace, "mint_to", "log")
    /\ "mint_to" \in Range(tx.trace) => "transfer" \in Range(tx.trace)
    /\ "log" \in Range(tx.trace) => "mint_to" \in Range(tx.trace)
    /\ pc = "mint_to" =>
          /\ tx.acc.mint.exists /\ is_mint_initialized(tx.acc)
          /\ tx.acc.ata[tx.donor].exists
          /\ "transfer" \in Range(tx.trace)

C9_Witness ==
    /\ Committed
    /\ tx.trace = <<"create_mint", "create_balance", "transfer", "mint_to", "log">>

\* C10: when two donors both make their first donation while no mint
\* exists, then in either order the first request creates the mint and the
\* second finds it and is not failed by it; both end with their value in
\* the vault and their reward in their balance account.
C10_RacingFirstDonations ==
    /\ (Finished /\ FreshDonor /\ tx.pre.mint.exists) =>
          /\ "create_mint" \notin Range(tx.trace)
          /\ (Failed /\ SufficientFunds) => tx.err = "ExternalLedgerFailure"
    /\ (Committed /\ FreshDonor) =>
          /\ mintCreations = 1
          /\ ("create_mint" \in Range(tx.trace)) <=> ~tx.pre.mint.exists
          /\ ledger.vault = tx.pre.vault + tx.amount
          /\ ledger.ata[tx.donor].amount = tx.amount \div 1000000
    /\ (Len(committed) = 2 /\ committed[1].donor # committed[2].donor) =>
          /\ mintCreations = 1
          /\ ledger.vault = committed[1].amount + committed[2].amount
          /\ \A i \in 1..2 :
                ledger.ata[committed[i].donor].amount
                   = committed[i].amount \div 1000000

C10_Witness ==
    /\ Committed /\ FreshDonor /\ tx.pre.mint.exists
    /\ Len(committed) = 2
    /\ committed[1] = [donor |-> "bob", amount |-> 3000000]
    /\ committed[2] = [donor |-> "alice", amount |-> 2000000]
    /\ mintCreations = 1
    /\ ledger.ata["bob"].amount = 3 /\ ledger.ata["alice"].amount = 2
    /\ ledger.vault = 5000000

\* C11: one DonationRecord per committed request and none for a failed one;
\* its donor, amount and tokens are the request's donor, the transferred
\* amount and floor(amount / 1_000_000); it is emitted after the mint step.
C11_OneRecordPerCommit ==
    /\ Len(log) = Len(committed)
    /\ \A i \in 1..Len(log) :
          /\ log[i].donor = committed[i].donor
          /\ log[i].amount = committed[i].amount
          /\ log[i].tokens = committed[i].amount \div 1000000
    /\ Committed => /\ Len(log) = tx.nlog + 1
                    /\ log[Len(log)].donor = tx.donor
                    /\ log[Len(log)].amount = tx.amount
                    /\ ledger.mint.supply
                          = tx.pre.mint.supply + log[Len(log)].tokens
    /\ Failed => Len(log) = tx.nlog
    /\ tx.status = "running" => Len(log) = tx.nlog
    /\ "log" \in Range(tx.trace) =>
          /\ Count(tx.trace, "log") = 1
          /\ Count(tx.trace, "mint_to") = 1
          /\ Before(tx.trace, "mint_to", "log")

C11_Witness ==
    /\ Len(log) = 2 /\ Len(committed) = 2
    /\ log[1].donor = "alice" /\ log[1].amount = 1999999 /\ log[1].tokens = 1
    /\ log[2].donor = "bob" /\ log[2].amount = 3000000 /\ log[2].tokens = 3
    /\ Failed /\ tx.step = "log" /\ tx.nlog = 2

\* The donors with a committed donation.
Donated == {committed[i].donor : i \in 1..Len(committed)}

\* C12: a donor's balance account comes into being exactly on the donor's
\* first committed donation, bound to (RewardMint, donor) with amount zero
\* before the mint step, whether or not the mint existed; once there it is
\* never created again, reset or removed.
C12_BalanceAccountOnce ==
    /\ \A d \in Donors : ledger.ata[d].exists <=> d \in Donated
    /\ \A d \in Donors :
          (Finished /\ tx.pre.ata[d].exists) =>
              /\ ledger.ata[d].exists
              /\ ledger.ata[d].owner = tx.pre.ata[d].owner
              /\ ledger.ata[d].mint = tx.pre.ata[d].mint
              /\ ledger.ata[d].amount >= tx.pre.ata[d].amount
    /\ (tx.status # "none" /\ tx.pre.ata[tx.donor].exists) =>
          "create_balance" \notin Range(tx.trace)
    /\ (tx.status # "none" /\ ~tx.pre.ata[tx.donor].exists
            /\ pc \in {"transfer", "provision", "mint_to"}) =>
          /\ Count(tx.trace, "create_balance") = 1
          /\ tx.acc.ata[tx.donor]
                = [exists |-> TRUE, owner |-> tx.donor,
                   mint |-> RewardMint, amount |-> 0]
    /\ (Committed /\ ~tx.pre.ata[tx.donor].exists) =>
          /\ Count(tx.trace, "create_balance") = 1
          /\ Before(tx.trace, "create_balance", "mint_to")

\* A second donor's first donation, with the mint already provisioned by
\* the first donor, stands before the mint step with a new empty account.
C12_Witness ==
    /\ pc = "mint_to"
    /\ tx.pre.mint.exists /\ ~tx.pre.ata[tx.donor].exists
    /\ tx.acc.ata[tx.donor].exists /\ tx.acc.ata[tx.donor].amount = 0
    /\ \E d \in Donors : d # tx.donor /\ ledger.ata[d].amount = 3

\* C13: an existing mint has 6 decimals and the MintAuthority address as
\* its authority, in the ledger and in every request's working copy, and
\* the mint step signed with the MintAuthority seeds is never refused.
C13_MintMetadataFixed ==
    /\ ledger.mint.exists =>
          /\ ledger.mint.decimals = 6
          /\ ledger.mint.authority = MintAuthority
    /\ (tx.status # "none" /\ tx.acc.mint.exists) =>
          /\ tx.acc.mint.decimals = 6
          /\ tx.acc.mint.authority = MintAuthority
    /\ (Finished /\ tx.pre.mint.exists) =>
          /\ ledger.mint.decimals = tx.pre.mint.decimals
          /\ ledger.mint.authority = tx.pre.mint.authority
    /\ (Failed /\ tx.step = "mint_to") => tx.err = "ExternalLedgerFailure"
    /\ pc = "log" => "mint_to" \in Range(tx.trace)

C13_Witness ==
    /\ pc = "log" /\ "mint_to" \in Range(tx.trace)
    /\ tx.pre.mint.exists /\ tx.pre.mint.supply = 3
    /\ tx.acc.mint.supply = 5
    /\ tx.acc.mint.decimals = 6 /\ tx.acc.mint.authority = MintAuthority

\* C14: a finished request leaves every other donor's balance account and
\* native balance as they were; so does every step of a running request.
C14_OtherDonorsUntouched ==
    tx.status # "none" =>
        \A d \in Donors \ {tx.donor} :
            /\ ledger.ata[d] = tx.pre.ata[d]
            /\ ledger.lamports[d] = tx.pre.lamports[d]
            /\ tx.acc.ata[d] = tx.pre.ata[d]
            /\ tx.acc.lamports[d] = tx.pre.lamports[d]

C14_Witness ==
    /\ Committed /\ tx.donor = "alice" /\ tx.amount = 2000000
    /\ tx.pre.ata["bob"].exists /\ tx.pre.ata["bob"].amount = 3
    /\ ledger.ata["bob"] = tx.pre.ata["bob"]
    /\ ledger.lamports["bob"] = tx.pre.lamports["bob"]
    /\ ledger.ata["alice"].amount = 2

\* C18: when the handler body starts, and when it reaches its provisioning
\* branch, the mint's authority is populated, so the branch is skipped:
\* initialize_mint and the nested create are never executed by the body,
\* on the first donation or on a later one.
C18_BodyProvisioningNeverRuns ==
    /\ pc \in {"transfer", "provision", "mint_to", "log"} =>
          /\ is_mint_initialized(tx.acc)
          /\ has_token_account(tx.acc, tx.donor)
    /\ pc = "provision" =>
          \A faultInit, faultCreate \in BOOLEAN :
              ProvisionInBody(tx.acc, tx.donor, faultInit, faultCreate)
                 = Ok(tx.acc, <<>>)
    /\ "initialize_mint" \notin Range(tx.trace)
    /\ Count(tx.trace, "create_mint") + Count(tx.trace, "create_balance") <= 2
    /\ \A c \in Creations : Before(tx.trace, c, "transfer")
    /\ Failed => tx.step # "provision"

\* First donation of the deployment: the body reaches its branch with the
\* mint just created and initialised by the account constraint.
C18_Witness ==
    /\ pc = "provision"
    /\ ~tx.pre.mint.exists
    /\ tx.trace = <<"create_mint", "create_balance", "transfer">>
    /\ is_mint_initialized(tx.acc)

RECURSIVE SumBalances(_)
\* Sum of the token amounts of the balance accounts of the donors in S.
SumBalances(S) ==
    IF S = {} THEN 0
    ELSE LET d == CHOOSE x \in S : TRUE
         IN  ledger.ata[d].amount + SumBalances(S \ {d})

RECURSIVE SumRewards(_)
SumRewards(seq) ==
    IF seq = <<>> THEN 0
    ELSE (Head(seq).amount \div 1000000) + SumRewards(Tail(seq))

\* C19: the mint's supply equals the sum of all balance accounts' amounts
\* and the sum of floor(amount / 1_000_000) over the committed requests; a
\* failed request creates no tokens.
C19_SupplyIsSumOfBalances ==
    /\ ledger.mint.supply = SumBalances(Donors)
    /\ ledger.mint.supply = SumRewards(committed)
    /\ Failed => /\ ledger.mint.supply = tx.pre.mint.supply
                 /\ \A d \in Donors : ledger.ata[d].amount = tx.pre.ata[d].amount
    /\ Committed =>
          ledger.mint.supply = tx.pre.mint.supply + (tx.amount \div 1000000)

C19_Witness ==
    /\ Len(committed) = 2
    /\ ledger.ata["alice"].amount = 2 /\ ledger.ata["bob"].amount = 3
    /\ ledger.mint.supply = 5
    /\ Failed /\ tx.step = "log" /\ tx.acc.mint.supply = 6

\* What C20 compares: the vault, the mint and the two donors' token amounts.
Observable(acc, d1, d2) ==
    <<acc.vault, acc.mint, acc.ata[d1].amount, acc.ata[d2].amount>>

\* Both requests commit when run one after the other from accounts acc.
BothCommit(acc, d1, a1, d2, a2) ==
    LET x == RunRequest(acc, d1, a1)
    IN  x.ok /\ RunRequest(x.acc, d2, a2).ok

\* The accounts after d1's request and then d2's.
AfterBoth(acc, d1, a1, d2, a2) ==
    RunRequest(RunRequest(acc, d1, a1).acc, d2, a2).acc

\* C20: from every committed ledger state (as it stands at the start and
\* after each commit; a failed request leaves it as it was), two requests of different donors
\* that commit in either order leave the same vault balance, mint state and
\* token amounts whichever runs first; a committed request leaves what
\* running its steps in order leaves.
C20_OrderIndependent ==
    /\ Committed =>
          LET r == RunRequest(tx.pre, tx.donor, tx.amount)
          IN  r.ok /\ ledger = r.acc /\ tx.trace = r.ev
    /\ (pc = "idle" /\ ~Failed) =>
          \A d1, d2 \in Donors, a1, a2 \in Amounts :
              LET x == RunRequest(ledger, d1, a1)
                  y == RunRequest(ledger, d2, a2)
                  xy == RunRequest(x.acc, d2, a2)
                  yx == RunRequest(y.acc, d1, a1)
              IN  (d1 # d2 /\ x.ok /\ y.ok /\ xy.ok /\ yx.ok) =>
                      Observable(xy.acc, d1, d2) = Observable(yx.acc, d1, d2)

\* Bob then alice committed from the initial ledger; the other order commits
\* too, agrees on what C20 compares and differs in who paid the mint's rent.
C20_Witness ==
    /\ Len(committed) = 2
    /\ committed[1] = [donor |-> "bob", amount |-> 3000000]
    /\ committed[2] = [donor |-> "alice", amount |-> 1999999]
    /\ Committed
    /\ LET l0 == [vault |-> 0,
                  lamports |-> [d \in Donors |-> InitialLamports],
                  mint |-> NoMint,
                  ata |-> [d \in Donors |-> NoTokenAccount]]
       IN  /\ ledger = AfterBoth(l0, "bob", 3000000, "alice", 1999999)
           /\ BothCommit(l0, "alice", 1999999, "bob", 3000000)
           /\ AfterBoth(l0, "alice", 1999999, "bob", 3000000) # ledger
           /\ Observable(AfterBoth(l0, "alice", 1999999, "bob", 3000000),
                         "alice", "bob")
                 = Observable(ledger, "alice", "bob")
           /\ ledger.mint.supply = 4 /\ ledger.vault = 4999999

\* The mint exists with other decimals or another authority than expected.
MintMismatched(acc) ==
    /\ acc.mint.exists
    /\ (acc.mint.decimals # 6 \/ acc.mint.authority # MintAuthority)

\* Donor d's balance account exists with another owner or another mint.
TokenAccountMismatched(acc, d) ==
    /\ acc.ata[d].exists
    /\ (acc.ata[d].owner # d \/ acc.ata[d].mint # RewardMint)

\* Errors of the account constraints on an account found in another shape.
ConstraintErrors ==
    {"ConstraintMintMintAuthority", "ConstraintMintFreezeAuthority",
     "ConstraintMintDecimals",
     "ConstraintTokenMint", "ConstraintTokenOwner"}

\* C15: a request that finds a mint with other decimals or authority, or a
\* balance account of its donor with another owner or mint, fails in the
\* account constraints and changes nothing: no value is transferred, nothing
\* is minted, nothing is logged.
C15_MismatchIsFatal ==
    (Finished /\ (MintMismatched(tx.pre)
                    \/ TokenAccountMismatched(tx.pre, tx.donor))) =>
        /\ Failed
        /\ tx.step \in {"init_mint", "init_ata"}
        /\ tx.err \in ConstraintErrors \cup {"ExternalLedgerFailure"}
        /\ ledger = tx.pre
        /\ Len(log) = tx.nlog
        /\ "transfer" \notin Range(tx.trace)
        /\ "mint_to" \notin Range(tx.trace)
        /\ tx.acc.vault = tx.pre.vault

\* The donor's balance account is owned by someone else; the mint is fine.
C15_Witness ==
    /\ Failed /\ tx.err = "ConstraintTokenOwner" /\ tx.step = "init_ata"
    /\ tx.donor = "alice" /\ tx.amount = 2000000
    /\ ~MintMismatched(tx.pre) /\ tx.pre.mint.exists
    /\ tx.pre.ata["alice"].owner = "mallory"
    /\ ledger = tx.pre

\* The finished request's reward would take the donor's token amount or the
\* supply past the maximum.
RewardOverflows ==
    \/ tx.amount \div 1000000 > U64_MAX - tx.pre.mint.supply
    \/ tx.amount \div 1000000 > U64_MAX - tx.pre.ata[tx.donor].amount

\* C16: the reward is at most the amount, so computing it cannot overflow;
\* token amounts and supply stay within the integer width and never wrap; a
\* request whose reward would take them past the maximum fails and changes
\* nothing.
C16_OverflowAborts ==
    /\ tx.status # "none" =>
          /\ spacex_tokens_to_mint(tx.amount) >= 0
          /\ spacex_tokens_to_mint(tx.amount) <= tx.amount
    /\ ledger.mint.supply \in 0..U64_MAX
    /\ \A d \in Donors : ledger.ata[d].amount \in 0..U64_MAX
    /\ (Finished /\ ~MintMismatched(tx.pre)) =>
          /\ ledger.mint.supply >= tx.pre.mint.supply
          /\ \A d \in Donors : ledger.ata[d].amount >= tx.pre.ata[d].amount
    /\ (Finished /\ RewardOverflows) =>
          /\ Failed
          /\ ledger = tx.pre
          /\ Len(log) = tx.nlog
    /\ (Failed /\ tx.err = "Overflow") =>
          /\ tx.step = "mint_to"
          /\ RewardOverflows
          /\ ledger = tx.pre

\* The supply is two below the maximum and the reward is three: mint_to
\* fails after the transfer was applied in the working copy.
C16_Witness ==
    /\ Failed /\ tx.err = "Overflow" /\ tx.step = "mint_to"
    /\ tx.amount = 3000000
    /\ tx.pre.mint.supply = U64_MAX - 2
    /\ tx.acc.vault = tx.pre.vault + 3000000
    /\ ledger = tx.pre
    /\ ledger.mint.supply = U64_MAX - 2

\* C17: mint_tokens(amount) is a bare mint: a committed call raises the
\* caller's token amount (and the supply) by exactly amount, moves no native
\* currency into the vault or to anyone, and its body creates or initialises
\* no mint and no balance account (both are in place when the body starts;
\* the caller pays only the rent of accounts the constraints created).
C17_PlainMint ==
    /\ ledger.vault = 0
    /\ Committed =>
          /\ ledger.ata[tx.donor].amount
                = tx.pre.ata[tx.donor].amount + tx.amount
          /\ ledger.mint.supply = tx.pre.mint.supply + tx.amount
          /\ ledger.lamports[tx.donor] = tx.pre.lamports[tx.donor] - RentDue
          /\ \A u \in Donors \ {tx.donor} :
                ledger.lamports[u] = tx.pre.lamports[u]
          /\ "transfer" \notin Range(tx.trace)
          /\ "initialize_mint" \notin Range(tx.trace)
          /\ Count(tx.trace, "mint_to") = 1
    /\ pc = "spl_mint_to" =>
          LET r == mint_tokens(tx.acc, tx.donor, tx.amount)
          IN  /\ tx.acc.mint.exists /\ tx.acc.ata[tx.donor].exists
              /\ r.ok
              /\ r.ev = <<"mint_to">>
              /\ r.acc.vault = tx.acc.vault
              /\ r.acc.lamports = tx.acc.lamports
              /\ r.acc.mint = [tx.acc.mint EXCEPT !.supply = @ + tx.amount]
              /\ r.acc.ata = [tx.acc.ata EXCEPT
                                ![tx.donor].amount = @ + tx.amount]

C17_Witness ==
    /\ Committed /\ tx.amount = 5
    /\ tx.pre.ata[tx.donor].exists /\ tx.pre.ata[tx.donor].amount = 1
    /\ ledger.ata[tx.donor].amount = 6
    /\ ledger.lamports[tx.donor] = tx.pre.lamports[tx.donor]
    /\ ledger.vault = 0

====
